---- MODULE Spec2Model ----
(***************************************************************************)
(* Model of src/vector_list/bench.cpp: the creation policies, the testing  *)
(* policies, the variadic policy runner, bench<Container,...>(), the       *)
(* scenario table bench<T>() and main().                                   *)
(*                                                                         *)
(* A container is the sequence of the keys `a` of its elements; the        *)
(* padding / payload of an element never influences control flow.          *)
(***************************************************************************)
EXTENDS Integers, Sequences, FiniteSets, TLC

\* ------------------------------------------------------------------ bounds
\* Largest container length / size argument drawn as an input of a policy.
MaxLen == 3
\* Largest key drawn as an input of a policy.
MaxKey == 3
\* Number of passes of the Insert / Erase / RemoveErase loops.  The source
\* runs 1000 passes on containers of 10000..100000 elements; the model keeps
\* the relation "declared sizes >= passes" (see MidStep) on a smaller scale.
Passes == 3
\* Entries of every size list of the scenario table (the source has 10).
NumSizes == 2
\* Scaled steps of the size lists: 100000 and 1000 in the source.
LargeStep == 2
SmallStep == 1
\* How many of main()'s element types the model runs (the source has 9).
NumTypes == 1

\* --------------------------------------------------------- program constants
REPEAT == 5
\* Clock::duration counts nanoseconds; the two DurationUnit arguments.
NsPerMicrosecond == 1000
NsPerMillisecond == 1000000

Kinds == {"vector", "list", "deque"}

ElementTypes ==
  << "Small", "Medium", "Large", "Huge", "Monster",
     "NonTrivialString_MovableNoExcept", "NonTrivialString_Movable",
     "NonTrivialString_NonMovable", "NonTrivialArray_32" >>

Min(a, b) == IF a < b THEN a ELSE b

\* The element types main() runs, in order.
Types == SubSeq(ElementTypes, 1, Min(NumTypes, Len(ElementTypes)))

\* A Container template argument: std::vector<T>, std::list<T>, std::deque<T>.
Containers == Kinds \X {Types[t] : t \in 1..Len(Types)}

\* ------------------------------------------------------------ sequences
Range(s) == {s[p] : p \in 1..Len(s)}

Swap(s, p, q) == [s EXCEPT ![p] = s[q], ![q] = s[p]]

InsertAt(s, p, x) == SubSeq(s, 1, p - 1) \o <<x>> \o SubSeq(s, p, Len(s))

EraseAt(s, p) == SubSeq(s, 1, p - 1) \o SubSeq(s, p + 1, Len(s))

Repeated(n, x) == [p \in 1..n |-> x]

\* std::find_if(begin(c), end(c), pred): the position of the first element
\* satisfying pred, Len(c) + 1 (the end iterator) when there is none.  The
\* predicate is given as the set of keys it accepts.
FindIf(c, accepted) ==
  IF \E p \in 1..Len(c) : c[p] \in accepted
    THEN CHOOSE p \in 1..Len(c) :
           c[p] \in accepted /\ \A q \in 1..(p - 1) : ~(c[q] \in accepted)
    ELSE Len(c) + 1

\* ------------------------------------------------------------ std::mt19937
\* A generator is a deterministic state machine.  Its state is modelled as
\* the cyclic stream of its future outputs: drawing returns the head and
\* rotates the stream.  Mt19937Default is the state of a default-constructed
\* engine (fixed seed), the same at every construction.
Mt19937Default == <<3, 1, 4, 1, 5>>

Draw(g) == Head(g)

Advance(g) == Tail(g) \o <<Head(g)>>

\* ------------------------------------------------------- creation policies
\* std::iota(begin(v), end(v), 0) on a vector resized to n.
Iota(n) == [p \in 1..n |-> p - 1]

\* std::shuffle(first, last, g): for each position i after the first, swap
\* it with a position drawn uniformly from [first, i].
RECURSIVE ShuffleFrom(_, _, _)
ShuffleFrom(s, g, p) ==
  IF p > Len(s) THEN s
  ELSE ShuffleFrom(Swap(s, p, 1 + (Draw(g) % p)), Advance(g), p + 1)

Shuffle(s, g) == ShuffleFrom(s, g, 2)

\* Faulty variant of FilledRandomCache: regenerates only when the cache is
\* too short.
StaleWhenShrinking(cache, size) ==
  IF Len(cache) < size THEN Shuffle(Iota(size), Mt19937Default) ELSE cache

\* Faulty variant of FilledRandomCache: a longer range keeps the old
\* permutation and appends the new indices.
ExtendOldPermutation(cache, size) ==
  IF Len(cache) # size
    THEN IF Len(cache) < size
           THEN cache \o [p \in 1..(size - Len(cache)) |-> Len(cache) + p - 1]
           ELSE Shuffle(Iota(size), Mt19937Default)
    ELSE cache

\* FilledRandom<Container>::make, the cache update: the value of the static
\* v after make(size) when it held `cache` before.
FilledRandomCache(cache, size) ==
  IF Len(cache) # size THEN Shuffle(Iota(size), Mt19937Default) ELSE cache

\* The fill loop of FilledRandom<Container>::make: one push_back per value.
RECURSIVE PushBackAll(_, _)
PushBackAll(c, vals) ==
  IF vals = <<>> THEN c ELSE PushBackAll(Append(c, Head(vals)), Tail(vals))

\* Faulty variant of FilledRandomMake: fills from the cache as it was before
\* the size check.
FilledBeforeRegenerating(cache, size) == PushBackAll(<<>>, cache)

\* FilledRandom<Container>::make, the container returned: filled from the
\* cache as it is after the size check.
FilledRandomMake(cache, size) == PushBackAll(<<>>, FilledRandomCache(cache, size))

\* Empty<Container>::make
EmptyMake(size) == <<>>

\* Filled<Container>::make and SmartFilled<Container>::make: Container(size),
\* size value-initialised elements (key 0).
FilledMake(size) == Repeated(size, 0)

SmartFilledMake(size) == Repeated(size, 0)

\* -------------------------------------------------------- testing policies
\* NoOp<Container>::run
NoOpRun(c, size) == c

\* ReserveSize<Container>::run: reserve() changes the capacity only; the
\* element sequence, which is all a container is here, stays as it is.
ReserveSizeRun(c, size) == c

\* FillBack<Container>::run: fill_n through a back_inserter, one push_back
\* of the static value (value-initialised, key 0) per count.
RECURSIVE FillBackRun(_, _)
FillBackRun(c, size) ==
  IF size = 0 THEN c ELSE FillBackRun(Append(c, 0), size - 1)

\* EmplaceBack<Container>::run
RECURSIVE EmplaceBackRun(_, _)
EmplaceBackRun(c, size) ==
  IF size = 0 THEN c ELSE EmplaceBackRun(Append(c, 0), size - 1)

\* FillFront<Container>::run: fill_n through a front_inserter (push_front).
RECURSIVE FillFrontRun(_, _)
FillFrontRun(c, size) ==
  IF size = 0 THEN c ELSE FillFrontRun(<<0>> \o c, size - 1)

\* FillFront<std::vector<T>>::run: insert(begin(c), value).
RECURSIVE FillFrontVectorRun(_, _)
FillFrontVectorRun(c, size) ==
  IF size = 0 THEN c ELSE FillFrontVectorRun(InsertAt(c, 1, 0), size - 1)

\* EmplaceFront<Container>::run
RECURSIVE EmplaceFrontRun(_, _)
EmplaceFrontRun(c, size) ==
  IF size = 0 THEN c ELSE EmplaceFrontRun(<<0>> \o c, size - 1)

\* EmplaceFront<std::vector<T>>::run: emplace(begin(c)).
RECURSIVE EmplaceFrontVectorRun(_, _)
EmplaceFrontVectorRun(c, size) ==
  IF size = 0 THEN c ELSE EmplaceFrontVectorRun(InsertAt(c, 1, 0), size - 1)

\* Find<Container>::run: size scans whose results are discarded.
FindRun(c, size) == c

\* Faulty variant of InsertPass: inserts behind the element found.
InsertAfterFound(c, size, i) ==
  InsertAt(c, Min(FindIf(c, {i}) + 1, Len(c) + 1), size + i)

\* One pass of Insert<Container>::run: find_if for key i, insert {size + i}
\* before the iterator found (before end() when nothing is found).
InsertPass(c, size, i) ==
  InsertAt(c, FindIf(c, {i}), size + i)

\* Insert<Container>::run: passes i = from .. Passes - 1.
RECURSIVE InsertFrom(_, _, _)
InsertFrom(c, size, from) ==
  IF from >= Passes THEN c
  ELSE InsertFrom(InsertPass(c, size, from), size, from + 1)

InsertRun(c, size) == InsertFrom(c, size, 0)

\* One pass of Erase<Container>::run: c.erase(find_if(...)).  An outcome is
\* the container afterwards and whether the process faulted.  When no
\* element has key i the argument is end(): erase(end()) is undefined
\* behaviour.  The outcomes builds produce: a crash (list frees its sentinel
\* node, vector memmoves a negative length), the last element dropped
\* (vector / deque decrement the end and destroy there), or nothing visible.
ErasePass(c, i) ==
  LET p == FindIf(c, {i})
  IN  IF p <= Len(c)
        THEN {[c |-> EraseAt(c, p), faulted |-> FALSE]}
        ELSE {[c |-> c, faulted |-> TRUE], [c |-> c, faulted |-> FALSE]}
             \cup (IF c = <<>> THEN {}
                   ELSE {[c |-> SubSeq(c, 1, Len(c) - 1), faulted |-> FALSE]})

\* Erase<Container>::run: passes i = from .. Passes - 1; a fault ends the
\* process, so no later pass runs.
RECURSIVE EraseFrom(_, _)
EraseFrom(c, from) ==
  IF from >= Passes THEN {[c |-> c, faulted |-> FALSE]}
  ELSE UNION {IF o.faulted THEN {o} ELSE EraseFrom(o.c, from + 1) :
               o \in ErasePass(c, from)}

EraseRun(c, size) == EraseFrom(c, 0)

\* One pass of RemoveErase<Container>::run: remove_if compacts the elements
\* whose key is not i, erase(new_end, end(c)) drops the rest.
RemoveErasePass(c, i) ==
  LET Keep(a) == a # i
  IN  SelectSeq(c, Keep)

RECURSIVE RemoveEraseFrom(_, _)
RemoveEraseFrom(c, from) ==
  IF from >= Passes THEN c
  ELSE RemoveEraseFrom(RemoveErasePass(c, from), from + 1)

RemoveEraseRun(c, size) == RemoveEraseFrom(c, 0)

\* std::sort(first, last) with the element's operator< (a < other.a).  On
\* short ranges std::sort is an insertion sort: each element is moved left
\* past the strictly greater ones.
RECURSIVE InsertSorted(_, _)
InsertSorted(sorted, x) ==
  IF sorted = <<>> THEN <<x>>
  ELSE LET last == sorted[Len(sorted)]
       IN  IF x < last
             THEN Append(InsertSorted(SubSeq(sorted, 1, Len(sorted) - 1), x), last)
             ELSE Append(sorted, x)

RECURSIVE InsertionSortFrom(_, _)
InsertionSortFrom(done, rest) ==
  IF rest = <<>> THEN done
  ELSE InsertionSortFrom(InsertSorted(done, Head(rest)), Tail(rest))

\* Sort<Container>::run, generic: std::sort(c.begin(), c.end()).
SortRun(c) == InsertionSortFrom(<<>>, c)

\* std::list::sort(), a merge sort; merge takes from the second run only
\* when its head is strictly less (stable).
RECURSIVE Merge(_, _)
Merge(x, y) ==
  IF x = <<>> THEN y
  ELSE IF y = <<>> THEN x
  ELSE IF Head(y) < Head(x) THEN <<Head(y)>> \o Merge(x, Tail(y))
  ELSE <<Head(x)>> \o Merge(Tail(x), y)

RECURSIVE MergeSort(_)
MergeSort(c) ==
  IF Len(c) <= 1 THEN c
  ELSE LET h == Len(c) \div 2
       IN  Merge(MergeSort(SubSeq(c, 1, h)), MergeSort(SubSeq(c, h + 1, Len(c))))

\* Faulty variant of SortListRun: an equal leading pair is collapsed.
SortListDropsDuplicates(c) ==
  LET m == MergeSort(c)
  IN  IF Len(m) >= 2 /\ m[1] = m[2] THEN Tail(m) ELSE m

\* Sort<std::list<T>>::run: c.sort().
SortListRun(c) == MergeSort(c)

\* Faulty variant of RandomSortedInsertPass: inserts behind the first
\* greater element.
RandomSortedInsertAfterGreater(c, g) ==
  LET val == Draw(g)
      p == FindIf(c, {a \in Range(c) : a > val})
  IN  [c |-> InsertAt(c, Min(p + 1, Len(c) + 1), val), g |-> Advance(g)]

\* One iteration of RandomSortedInsert<Container>::run: draw val from the
\* static generator, insert {val} before the first element with a >= val.
\* The result is the container and the generator afterwards.
RandomSortedInsertPass(c, g) ==
  LET val == Draw(g)
  IN  [c |-> InsertAt(c, FindIf(c, {a \in Range(c) : a >= val}), val),
       g |-> Advance(g)]

RECURSIVE RandomSortedInsertFrom(_, _, _)
RandomSortedInsertFrom(c, g, left) ==
  IF left = 0 THEN [c |-> c, g |-> g]
  ELSE LET r == RandomSortedInsertPass(c, g)
       IN  RandomSortedInsertFrom(r.c, r.g, left - 1)

RandomSortedInsertRun(c, size, g) == RandomSortedInsertFrom(c, g, size)

\* ----------------------------------------------------------- scenario table
\* Step of the 10000..100000 size lists: as in the source, every size of the
\* random_insert / random_remove groups is at least the number of passes.
MidStep == Passes

\* The size list {step, 2 * step, ...} of a group.
SizeList(step) == [k \in 1..NumSizes |-> k * step]

\* One bench<Container, DurationUnit, CreatePolicy, TestPolicy...>(type, sizes)
\* call of bench<T>().
Series(label, kind, create, tests) ==
  [label |-> label, kind |-> kind, create |-> create, tests |-> tests]

\* The same test policy on vector, list and deque.
OnEachKind(create, tests) ==
  << Series("vector", "vector", create, tests),
     Series("list", "list", create, tests),
     Series("deque", "deque", create, tests) >>

\* bench<T>(): the ten blocks, each a new_graph<T>(name, unit) call followed
\* by its bench<...>() calls.
Groups ==
  << [name |-> "fill_back", unit |-> "us", sizes |-> SizeList(LargeStep),
      series |-> << Series("vector_pre", "vector", "Empty", <<"ReserveSize", "FillBack">>) >>
                 \o OnEachKind("Empty", <<"FillBack">>)],
     [name |-> "emplace_back", unit |-> "us", sizes |-> SizeList(LargeStep),
      series |-> OnEachKind("Empty", <<"EmplaceBack">>)],
     [name |-> "fill_front", unit |-> "us", sizes |-> SizeList(MidStep),
      series |-> OnEachKind("Empty", <<"FillFront">>)],
     [name |-> "emplace_front", unit |-> "us", sizes |-> SizeList(MidStep),
      series |-> OnEachKind("Empty", <<"EmplaceFront">>)],
     [name |-> "linear_search", unit |-> "us", sizes |-> SizeList(SmallStep),
      series |-> OnEachKind("FilledRandom", <<"Find">>)],
     [name |-> "random_insert", unit |-> "ms", sizes |-> SizeList(MidStep),
      series |-> OnEachKind("FilledRandom", <<"Insert">>)],
     [name |-> "random_remove", unit |-> "ms", sizes |-> SizeList(MidStep),
      series |-> << Series("vector", "vector", "FilledRandom", <<"Erase">>),
                    Series("vector_rem", "vector", "FilledRandom", <<"RemoveErase">>),
                    Series("list", "list", "FilledRandom", <<"Erase">>),
                    Series("deque", "deque", "FilledRandom", <<"Erase">>) >>],
     [name |-> "sort", unit |-> "ms", sizes |-> SizeList(LargeStep),
      series |-> OnEachKind("FilledRandom", <<"Sort">>)],
     [name |-> "destruction", unit |-> "us", sizes |-> SizeList(LargeStep),
      series |-> OnEachKind("SmartFilled", <<"SmartDelete">>)],
     [name |-> "number_crunching", unit |-> "ms", sizes |-> SizeList(MidStep),
      series |-> OnEachKind("Empty", <<"RandomSortedInsert">>)] >>

\* std::chrono::duration_cast<DurationUnit>(d).count() for d >= 0.
DurationCast(unit, d) ==
  IF unit = "us" THEN d \div NsPerMicrosecond ELSE d \div NsPerMillisecond

\* Template dispatch of Sort<Container>: the std::list specialisation or the
\* generic one.
SortFor(kind, c) == IF kind = "list" THEN SortListRun(c) ELSE SortRun(c)

\* Template dispatch of FillFront / EmplaceFront: the std::vector
\* specialisation or the generic one.
FillFrontFor(kind, c, size) ==
  IF kind = "vector" THEN FillFrontVectorRun(c, size) ELSE FillFrontRun(c, size)

EmplaceFrontFor(kind, c, size) ==
  IF kind = "vector" THEN EmplaceFrontVectorRun(c, size) ELSE EmplaceFrontRun(c, size)

\* Test<Container>::run(container, size) for one test policy.  An outcome is
\* the container afterwards, whether it still exists (SmartDelete resets the
\* owning pointer), the static generator afterwards, and whether the process
\* faulted.
Outcome(c, live, g, faulted) == [c |-> c, live |-> live, g |-> g, faulted |-> faulted]

TestRun(policy, kind, c, size, g) ==
  CASE policy = "NoOp"         -> {Outcome(NoOpRun(c, size), TRUE, g, FALSE)}
    [] policy = "ReserveSize"  -> {Outcome(ReserveSizeRun(c, size), TRUE, g, FALSE)}
    [] policy = "FillBack"     -> {Outcome(FillBackRun(c, size), TRUE, g, FALSE)}
    [] policy = "EmplaceBack"  -> {Outcome(EmplaceBackRun(c, size), TRUE, g, FALSE)}
    [] policy = "FillFront"    -> {Outcome(FillFrontFor(kind, c, size), TRUE, g, FALSE)}
    [] policy = "EmplaceFront" -> {Outcome(EmplaceFrontFor(kind, c, size), TRUE, g, FALSE)}
    [] policy = "Find"         -> {Outcome(FindRun(c, size), TRUE, g, FALSE)}
    [] policy = "Insert"       -> {Outcome(InsertRun(c, size), TRUE, g, FALSE)}
    [] policy = "Erase"        -> {Outcome(o.c, TRUE, g, o.faulted) : o \in EraseRun(c, size)}
    [] policy = "RemoveErase"  -> {Outcome(RemoveEraseRun(c, size), TRUE, g, FALSE)}
    [] policy = "Sort"         -> {Outcome(SortFor(kind, c), TRUE, g, FALSE)}
    [] policy = "SmartDelete"  -> {Outcome(<<>>, FALSE, g, FALSE)}
    [] policy = "RandomSortedInsert" ->
         LET r == RandomSortedInsertRun(c, size, g)
         IN  {Outcome(r.c, TRUE, r.g, FALSE)}

\* ------------------------------------------------------------------- state
VARIABLES
  v,          \* FilledRandom<Container>::v, one static per Container
  generator,  \* RandomSortedInsert<Container>::generator, one per Container
  container,  \* the container of the running trial / policy call
  live,       \* whether that container exists
  faulted,    \* the process has crashed
  pc,         \* position in main() / bench(), or the policy being exercised
  typeIx,     \* main(): which bench<T>() is running
  groupIx,    \* bench<T>(): which block
  seriesIx,   \* bench<T>(): which bench<...>() call of the block
  sizeIx,     \* bench(): position in sizes
  rep,        \* bench(): the loop variable i of the REPEAT loop
  duration,   \* bench(): the local Clock::duration
  timing,     \* between the two Clock::now() calls
  log,        \* calls received by graphs::, in order (without y values)
  sample,     \* the new_result call being made, with its y value
  kind,       \* policy call: the container kind
  size,       \* policy call: the size argument
  i,          \* policy call: the loop variable
  orig,       \* history: the container as handed to the policy call
  applied,    \* history: test policies run in this trial, with their size
  elapsed,    \* history: sum of t1 - t0 over the trials of this size
  trialsDone, \* history: trials completed for this size
  finals,     \* history: final key sequences of the trials of this size
  call        \* history: the last FilledRandom::make call and what it did

vars ==
  << v, generator, container, live, faulted, pc, typeIx, groupIx, seriesIx,
     sizeIx, rep, duration, timing, log, sample, kind, size, i, applied,
     elapsed, trialsDone, finals, call, orig >>

mainVars == << typeIx, groupIx, seriesIx, sizeIx, rep, duration, timing, log,
               sample, applied, elapsed, trialsDone, finals >>

NoSample == [label |-> "", x |-> 0, y |-> 0, unit |-> "", total |-> 0]

NoCall == [kind |-> "", size |-> 0, reused |-> FALSE, regenerated |-> FALSE]

\* Static initialisation and the locals before main() runs.
Statics ==
  /\ v = [C \in Containers |-> <<>>]
  /\ generator = [C \in Containers |-> Mt19937Default]

\* bench() is not running: its locals and the history variables at rest.
Idle ==
  /\ faulted = FALSE
  /\ typeIx = 1 /\ groupIx = 1 /\ seriesIx = 1 /\ sizeIx = 1 /\ rep = 0
  /\ duration = 0 /\ timing = FALSE /\ log = <<>> /\ sample = NoSample
  /\ applied = <<>> /\ elapsed = 0 /\ trialsDone = 0 /\ finals = {}
  /\ call = NoCall

\* ------------------------------------------------------------------ main()
CurGroup == Groups[groupIx]

CurSeries == CurGroup.series[seriesIx]

CurSize == CurGroup.sizes[sizeIx]

CurContainer == <<CurSeries.kind, Types[typeIx]>>

\* A Clock::duration declared without an initialiser holds an indeterminate
\* value; reading it (duration += ...) can yield any count.  Two
\* representatives, in nanoseconds: zero and a stale non-zero count.
IndeterminateDuration == {0, 7000000}

\* The differences t1 - t0 a trial can measure, in nanoseconds.
ElapsedTimes == {0, 2600000}

policyVars == << kind, size, i, call, orig >>

Init ==
  /\ Statics /\ Idle
  /\ container = <<>> /\ live = FALSE
  /\ kind = "vector" /\ size = 0 /\ i = 0 /\ orig = <<>>
  /\ pc = "new_graph"

\* new_graph<T>(testName, unit) at the head of a block of bench<T>().
NewGraph ==
  /\ pc = "new_graph"
  /\ log' = Append(log, [call |-> "new_graph", name |-> CurGroup.name,
                         type |-> Types[typeIx], unit |-> CurGroup.unit, x |-> 0])
  /\ sample' = NoSample
  /\ pc' = "begin_size"
  /\ UNCHANGED << v, generator, container, live, faulted, typeIx, groupIx,
                  seriesIx, sizeIx, rep, duration, timing, applied,
                  elapsed, trialsDone, finals >>
  /\ UNCHANGED policyVars

\* bench(): `Clock::duration duration;` at the head of the body of
\* `for (auto size : sizes)`: the values the local can hold when first read.
DeclaredDuration == IndeterminateDuration

\* bench(): the head of the body of the size loop and the start of the
\* REPEAT loop.
BeginSize ==
  /\ pc = "begin_size"
  /\ duration' \in DeclaredDuration
  /\ rep' = 0
  /\ elapsed' = 0 /\ trialsDone' = 0 /\ finals' = {}
  /\ sample' = NoSample
  /\ pc' = "make"
  /\ UNCHANGED << v, generator, container, live, faulted, typeIx, groupIx,
                  seriesIx, sizeIx, timing, log, applied >>
  /\ UNCHANGED policyVars

\* CreatePolicy<Container>::make(size): the new value of the static cache
\* and the container returned.
CreateCache(policy, cache, n) ==
  IF policy = "FilledRandom" THEN FilledRandomCache(cache, n) ELSE cache

CreateMake(policy, cache, n) ==
  CASE policy = "Empty"        -> EmptyMake(n)
    [] policy = "Filled"       -> FilledMake(n)
    [] policy = "FilledRandom" -> FilledRandomMake(cache, n)
    [] policy = "SmartFilled"  -> SmartFilledMake(n)

\* bench(): auto container = CreatePolicy<Container>::make(size);
Make ==
  /\ pc = "make"
  /\ v' = [v EXCEPT ![CurContainer] = CreateCache(CurSeries.create, @, CurSize)]
  /\ container' = CreateMake(CurSeries.create, v[CurContainer], CurSize)
  /\ live' = TRUE
  /\ applied' = <<>>
  /\ pc' = "t0"
  /\ UNCHANGED << generator, faulted, typeIx, groupIx, seriesIx, sizeIx, rep,
                  duration, timing, log, sample, elapsed, trialsDone, finals >>
  /\ UNCHANGED policyVars

\* bench(): Clock::time_point t0 = Clock::now();
StartTimer ==
  /\ pc = "t0"
  /\ timing' = TRUE
  /\ pc' = "run"
  /\ UNCHANGED << v, generator, container, live, faulted, typeIx, groupIx,
                  seriesIx, sizeIx, rep, duration, log, sample, applied,
                  elapsed, trialsDone, finals >>
  /\ UNCHANGED policyVars

\* Faulty variant of NextTest: the pack is taken from its tail.
NextTestReversed(tests, done) == tests[Len(tests) - done]

\* run<Test, Rest...>(container, size): the head policy of the pack runs
\* first, run<Rest...> takes the remaining ones; `done` policies have run.
NextTest(tests, done) == tests[done + 1]

\* One Test<Container>::run(container, size) call of the policy runner.
RunTest ==
  /\ pc = "run"
  /\ Len(applied) < Len(CurSeries.tests)
  /\ LET policy == NextTest(CurSeries.tests, Len(applied))
     IN  /\ \E o \in TestRun(policy, CurSeries.kind, container, CurSize,
                             generator[CurContainer]) :
              /\ container' = o.c
              /\ live' = o.live
              /\ generator' = [generator EXCEPT ![CurContainer] = o.g]
              /\ faulted' = o.faulted
              /\ pc' = IF o.faulted THEN "crashed" ELSE "run"
         /\ applied' = Append(applied, [policy |-> policy, size |-> CurSize])
  /\ UNCHANGED << v, typeIx, groupIx, seriesIx, sizeIx, rep, duration, timing,
                  log, sample, elapsed, trialsDone, finals >>
  /\ UNCHANGED policyVars

\* The REPEAT loop's condition i < REPEAT, evaluated after ++i.
RepeatAgain(n) == n < REPEAT

\* bench(): run<>() with no policy left returns; t1 = Clock::now();
\* duration += t1 - t0; the container is destroyed at the end of the loop
\* body; ++i.
StopTimer ==
  /\ pc = "run"
  /\ Len(applied) = Len(CurSeries.tests)
  /\ \E e \in ElapsedTimes :
       /\ duration' = duration + e
       /\ elapsed' = elapsed + e
  /\ timing' = FALSE
  /\ finals' = finals \cup {container}
  /\ trialsDone' = trialsDone + 1
  /\ container' = <<>>
  /\ live' = FALSE
  /\ rep' = rep + 1
  /\ pc' = IF RepeatAgain(rep + 1) THEN "make" ELSE "new_result"
  /\ UNCHANGED << v, generator, faulted, typeIx, groupIx, seriesIx, sizeIx,
                  log, sample, applied >>
  /\ UNCHANGED policyVars

\* bench(): duration_cast<DurationUnit>(duration).count() / REPEAT
Average(unit, d) == DurationCast(unit, d) \div REPEAT

\* Faulty variant of AfterResult: new_graph ahead of every bench<...>() call.
GraphPerSeries ==
  IF sizeIx < NumSizes THEN "begin_size"
  ELSE IF seriesIx < Len(CurGroup.series) THEN "new_graph"
  ELSE IF groupIx < Len(Groups) THEN "new_graph"
  ELSE IF typeIx < Len(Types) THEN "new_graph"
  ELSE "output"

\* Where control goes after new_result: the next size, the next bench<...>()
\* call, the next block (its new_graph), the next bench<T>() of main(), or
\* main()'s graphs::output.
AfterResult ==
  IF sizeIx < NumSizes THEN "begin_size"
  ELSE IF seriesIx < Len(CurGroup.series) THEN "begin_size"
  ELSE IF groupIx < Len(Groups) THEN "new_graph"
  ELSE IF typeIx < Len(Types) THEN "new_graph"
  ELSE "output"

\* bench(): graphs::new_result(type, std::to_string(size), average), and the
\* loop / return that follows it.
NewResult ==
  /\ pc = "new_result"
  /\ log' = Append(log, [call |-> "new_result", name |-> CurSeries.label,
                         type |-> "", unit |-> "", x |-> CurSize])
  /\ sample' = [label |-> CurSeries.label, x |-> CurSize,
                y |-> Average(CurGroup.unit, duration),
                unit |-> CurGroup.unit, total |-> elapsed]
  /\ pc' = AfterResult
  /\ IF sizeIx < NumSizes
       THEN /\ sizeIx' = sizeIx + 1
            /\ UNCHANGED << seriesIx, groupIx, typeIx >>
       ELSE /\ sizeIx' = 1
            /\ IF seriesIx < Len(CurGroup.series)
                 THEN /\ seriesIx' = seriesIx + 1
                      /\ UNCHANGED << groupIx, typeIx >>
                 ELSE /\ seriesIx' = 1
                      /\ IF groupIx < Len(Groups)
                           THEN /\ groupIx' = groupIx + 1
                                /\ UNCHANGED typeIx
                           ELSE IF typeIx < Len(Types)
                                  THEN /\ groupIx' = 1
                                       /\ typeIx' = typeIx + 1
                                  ELSE UNCHANGED << groupIx, typeIx >>
  /\ duration' = 0
  /\ UNCHANGED << v, generator, container, live, faulted, rep, timing, applied,
                  elapsed, trialsDone, finals >>
  /\ UNCHANGED policyVars

\* main(): graphs::output(graphs::Output::GOOGLE);
OutputGraphs ==
  /\ pc = "output"
  /\ log' = Append(log, [call |-> "output", name |-> "GOOGLE", type |-> "",
                         unit |-> "", x |-> 0])
  /\ sample' = NoSample
  /\ pc' = "done"
  /\ UNCHANGED << v, generator, container, live, faulted, typeIx, groupIx,
                  seriesIx, sizeIx, rep, duration, timing, applied,
                  elapsed, trialsDone, finals >>
  /\ UNCHANGED policyVars

Next ==
  \/ NewGraph
  \/ BeginSize
  \/ Make
  \/ StartTimer
  \/ RunTest
  \/ StopTimer
  \/ NewResult
  \/ OutputGraphs

Spec == Init /\ [][Next]_vars

\* ------------------------------------------------- policies, call by call
\* The specifications below exercise one policy at a time on inputs drawn
\* from bounded sets, with the same operators main() runs.
Keys == 0..MaxKey

\* Every key sequence of length at most MaxLen.
Inputs == UNION {[1..n -> Keys] : n \in 0..MaxLen}

\* The Container the policy is instantiated for.
PolicyContainer(k) == <<k, Types[1]>>

\* --- FilledRandom<Container>::make, any sequence of calls
InitMake ==
  /\ Statics /\ Idle
  /\ container = <<>> /\ live = FALSE
  /\ kind = "vector" /\ size = 0 /\ i = 0 /\ orig = <<>>
  /\ pc = "FilledRandom"

MakeCall ==
  /\ pc = "FilledRandom"
  /\ \E k \in Kinds, n \in 0..MaxLen :
       LET C == PolicyContainer(k)
       IN  /\ v' = [v EXCEPT ![C] = FilledRandomCache(@, n)]
           /\ container' = FilledRandomMake(v[C], n)
           /\ kind' = k
           /\ size' = n
           /\ call' = [kind |-> k, size |-> n,
                       reused |-> call.reused \/ (Len(v[C]) = n /\ n >= 2),
                       regenerated |-> call.regenerated
                                         \/ (Len(v[C]) >= 2 /\ n >= 2 /\ Len(v[C]) # n)]
  /\ live' = TRUE
  /\ UNCHANGED << generator, faulted, pc, i, orig >>
  /\ UNCHANGED mainVars

NextMake == MakeCall

SpecMake == InitMake /\ [][NextMake]_vars

\* --- Insert<Container>::run(c, size) on a container of size elements
InitInsert ==
  /\ Statics /\ Idle
  /\ container \in Inputs /\ live = TRUE
  /\ kind \in Kinds /\ size = Len(container) /\ i = 0 /\ orig = container
  /\ pc = "Insert"

InsertStep ==
  /\ pc = "Insert"
  /\ i < Passes
  /\ container' = InsertPass(container, size, i)
  /\ i' = i + 1
  /\ UNCHANGED << v, generator, live, faulted, pc, kind, size, call, orig >>
  /\ UNCHANGED mainVars

NextInsert == InsertStep

SpecInsert == InitInsert /\ [][NextInsert]_vars

\* --- Erase<Container>::run(c, size) on any container
InitErase ==
  /\ Statics /\ Idle
  /\ container \in Inputs /\ live = TRUE
  /\ kind \in Kinds /\ size = Len(container) /\ i = 0 /\ orig = container
  /\ pc = "Erase"

EraseStep ==
  /\ pc = "Erase"
  /\ i < Passes
  /\ ~faulted
  /\ \E o \in ErasePass(container, i) :
       /\ container' = o.c
       /\ faulted' = o.faulted
  /\ i' = i + 1
  /\ UNCHANGED << v, generator, live, pc, kind, size, call, orig >>
  /\ UNCHANGED mainVars

NextErase == EraseStep

SpecErase == InitErase /\ [][NextErase]_vars

\* --- RandomSortedInsert<Container>::run(c, size) on an empty container,
\* the static generator in any state
Streams == [1..MaxLen -> Keys]

InitRandomSortedInsert ==
  /\ Idle
  /\ v = [C \in Containers |-> <<>>]
  /\ kind \in Kinds
  /\ \E g \in Streams :
       generator = [C \in Containers |->
                      IF C = PolicyContainer(kind) THEN g ELSE Mt19937Default]
  /\ container = <<>> /\ live = TRUE
  /\ size \in 0..MaxLen /\ i = 0 /\ orig = <<>>
  /\ pc = "RandomSortedInsert"

RandomSortedInsertStep ==
  /\ pc = "RandomSortedInsert"
  /\ i < size
  /\ LET r == RandomSortedInsertPass(container, generator[PolicyContainer(kind)])
     IN  /\ container' = r.c
         /\ generator' = [generator EXCEPT ![PolicyContainer(kind)] = r.g]
  /\ i' = i + 1
  /\ UNCHANGED << v, live, faulted, pc, kind, size, call, orig >>
  /\ UNCHANGED mainVars

NextRandomSortedInsert == RandomSortedInsertStep

SpecRandomSortedInsert == InitRandomSortedInsert /\ [][NextRandomSortedInsert]_vars

\* --- Sort<Container>::run(c, size), called twice in a row
InitSort ==
  /\ Statics /\ Idle
  /\ container \in Inputs /\ live = TRUE
  /\ kind \in Kinds /\ size = Len(container) /\ i = 0 /\ orig = container
  /\ pc = "Sort"

SortCall ==
  /\ pc = "Sort"
  /\ i < 2
  /\ container' = SortFor(kind, container)
  /\ i' = i + 1
  /\ UNCHANGED << v, generator, live, faulted, pc, kind, size, call, orig >>
  /\ UNCHANGED mainVars

NextSort == SortCall

SpecSort == InitSort /\ [][NextSort]_vars

\* ================================================================== claims
IsSorted(s) == \A p \in 1..(Len(s) - 1) : s[p] <= s[p + 1]

Count(s, x) == Cardinality({p \in 1..Len(s) : s[p] = x})

SameKeys(s, t) == \A x \in Range(s) \cup Range(t) : Count(s, x) = Count(t, x)

\* s without the elements at the positions in P, order kept.
RECURSIVE Without(_, _, _)
Without(s, P, p) ==
  IF p > Len(s) THEN <<>>
  ELSE (IF p \in P THEN <<>> ELSE <<s[p]>>) \o Without(s, P, p + 1)

\* t is s with x inserted at position p.
InsertedAt(s, t, p, x) ==
  /\ Len(t) = Len(s) + 1
  /\ t[p] = x
  /\ \A q \in 1..(p - 1) : t[q] = s[q]
  /\ \A q \in p..Len(s) : t[q + 1] = s[q]

\* C1: after any sequence of FilledRandom::make calls, on any container
\* kind and with any sizes, the container returned by make(n) has exactly n
\* elements and its keys are exactly 0 .. n-1, none twice, none missing.
C1_MakeYieldsFullRange ==
  pc = "FilledRandom" =>
    /\ Len(container) = size
    /\ Range(container) = 0..(size - 1)
    /\ \A p, q \in 1..Len(container) : container[p] = container[q] => p = q

\* C1 witness: make(MaxLen) has returned after the cache of that container
\* type was both reused and regenerated from another non-trivial size.
C1_Witness ==
  /\ pc = "FilledRandom"
  /\ size = MaxLen /\ Len(container) = MaxLen
  /\ call.reused /\ call.regenerated

\* C2: a FilledRandom::make call with the cached size leaves the cache
\* unchanged and returns its key order again; a call with another size
\* replaces the cache by the fresh shuffle of the whole range [0, size),
\* whatever the cache held, and returns that; no other cache is touched.
C2_CacheReshuffledOnlyOnSizeChange ==
  [][(pc = "FilledRandom" /\ call' # call) =>
       LET C == PolicyContainer(kind')
       IN  /\ Len(v[C]) = size' =>
                /\ v'[C] = v[C]
                /\ container' = v[C]
           /\ Len(v[C]) # size' =>
                /\ Len(v'[C]) = size'
                /\ Range(v'[C]) = 0..(size' - 1)
                /\ v'[C] = Shuffle([p \in 1..size' |-> p - 1], Mt19937Default)
                /\ container' = v'[C]
           /\ \A D \in Containers \ {C} : v'[D] = v[D]]_vars

\* C2 witness: on some container type a call reused a cache of two or more
\* values and a call replaced such a cache by one of another size.
C2_Witness ==
  /\ pc = "FilledRandom"
  /\ call.reused /\ call.regenerated
  /\ size >= 2 /\ container = v[PolicyContainer(kind)]

\* C3: every pass of Erase::run completes without a fault and either erases
\* the first element with key i or, when no element has key i, leaves the
\* container as it is (so at most Passes elements go, all with searched keys).
C3_EraseNeverFaults ==
  [][(pc = "Erase" /\ i' = i + 1) =>
       /\ ~faulted'
       /\ IF i \in Range(container)
            THEN \E p \in 1..Len(container) :
                   /\ container[p] = i
                   /\ \A q \in 1..(p - 1) : container[q] # i
                   /\ InsertedAt(container', container, p, i)
            ELSE container' = container]_vars

\* C4: each pass i of Insert::run puts one element with key size+i right
\* before the first element with key i as the container then is, or at the
\* end when there is none; after the last pass the container has
\* size + Passes elements: the original ones in their original order, plus
\* exactly one with key size+i for each pass i.
C4_InsertAddsOnePerPass ==
  [][(pc = "Insert" /\ i' = i + 1) =>
       /\ \E p \in 1..(Len(container) + 1) :
            /\ InsertedAt(container, container', p, size + i)
            /\ \A q \in 1..(p - 1) : container[q] # i
            /\ p <= Len(container) => container[p] = i
       /\ i' = Passes =>
            /\ Len(container') = size + Passes
            /\ \E P \in SUBSET (1..Len(container')) :
                 /\ Cardinality(P) = Passes
                 /\ {container'[p] : p \in P} = {size + j : j \in 0..(Passes - 1)}
                 /\ Without(container', P, 1) = orig]_vars

\* C4 witness: Insert::run has finished on a non-empty container shorter
\* than the number of passes, and a later pass found a key an earlier pass
\* had inserted (the element before it is the one that pass inserted).
C4_Witness ==
  /\ pc = "Insert" /\ i = Passes
  /\ size >= 1 /\ size < Passes
  /\ \E p \in 2..Len(container) :
       /\ container[p] >= size /\ container[p] < Passes
       /\ container[p - 1] = size + container[p]
       /\ ~(container[p] \in Range(orig))

\* C5: every iteration of RandomSortedInsert::run on an initially empty
\* container inserts the drawn key right before the first element >= it (at
\* the end when there is none) and leaves the container in non-decreasing
\* order; after the last iteration it holds exactly size elements.
C5_RandomSortedInsertKeepsOrder ==
  [][(pc = "RandomSortedInsert" /\ i' = i + 1) =>
       LET val == Head(generator[PolicyContainer(kind)])
       IN  /\ \E p \in 1..(Len(container) + 1) :
                /\ InsertedAt(container, container', p, val)
                /\ \A q \in 1..(p - 1) : container[q] < val
                /\ p <= Len(container) => container[p] >= val
           /\ IsSorted(container')
           /\ Len(container') = i'
           /\ i' = size => Len(container') = size]_vars

\* C5 witness: a run of MaxLen iterations has finished and drew a repeated
\* key as well as a key smaller than one drawn before it.
C5_Witness ==
  /\ pc = "RandomSortedInsert" /\ i = size /\ size = MaxLen
  /\ Len(container) = MaxLen
  /\ \E p \in 1..(MaxLen - 1) : container[p] = container[p + 1]
  /\ container[1] < container[MaxLen]
  /\ LET g == generator[PolicyContainer(kind)]
     IN  g[1] > g[MaxLen]

\* C6: Sort::run, on either path, returns the same number of elements with
\* the same keys as often, in non-decreasing order; run on its own result it
\* returns that result again.
C6_SortOrdersAndIsIdempotent ==
  [][(pc = "Sort" /\ i' = i + 1) =>
       /\ Len(container') = Len(container)
       /\ SameKeys(container', container)
       /\ IsSorted(container')
       /\ IsSorted(container) => container' = container
       /\ i = 1 => container' = container]_vars

\* C6 witness: list::sort has run twice on a container of MaxLen elements
\* that was not in order and held a key twice.
C6_Witness ==
  /\ pc = "Sort" /\ i = 2 /\ kind = "list"
  /\ Len(orig) = MaxLen /\ ~IsSorted(orig)
  /\ \E p, q \in 1..MaxLen : p # q /\ orig[p] = orig[q]
  /\ IsSorted(container)

\* C7: the y value handed to new_result is the sum of the elapsed times of
\* that size's five trials, and of nothing else, divided by five and counted
\* in the scenario's unit; it is not negative, and dividing before or after
\* the conversion gives the same count.
C7_SampleIsAverageOfTrials ==
  sample # NoSample =>
    LET ns == IF sample.unit = "us" THEN NsPerMicrosecond ELSE NsPerMillisecond
    IN  /\ sample.y = (sample.total \div 5) \div ns
        /\ sample.y = (sample.total \div ns) \div 5
        /\ sample.y >= 0

\* The series / size pairs bench<T>() declares for the block called `name`.
ExpectedPairs(name) ==
  LET g == CHOOSE g \in 1..Len(Groups) : Groups[g].name = name
  IN  {<<Groups[g].series[s].label, Groups[g].sizes[z]>> :
         s \in 1..Len(Groups[g].series), z \in 1..NumSizes}

GraphPositions(l) == {p \in 1..Len(l) : l[p].call = "new_graph"}

\* The new_result calls that land in the graph declared at position q: those
\* after q and before the next new_graph.
Segment(l, q) ==
  {p \in (q + 1)..Len(l) :
     /\ l[p].call = "new_result"
     /\ \A r \in (q + 1)..p : l[r].call # "new_graph"}

Pair(l, p) == <<l[p].name, l[p].x>>

LogOrdered(l) ==
  /\ \A p \in 1..Len(l) :
       l[p].call = "new_result" => \E q \in 1..(p - 1) : l[q].call = "new_graph"
  /\ \A p \in 1..Len(l) : l[p].call = "output" => p = Len(l)
  /\ \A q, r \in GraphPositions(l) :
       (l[q].name = l[r].name /\ l[q].type = l[r].type) => q = r
  /\ \A q \in GraphPositions(l) :
       /\ \E g \in 1..Len(Groups) : Groups[g].name = l[q].name
       /\ l[q].type \in Range(Types)
       /\ LET segment == Segment(l, q)
              expected == ExpectedPairs(l[q].name)
          IN  /\ \A p \in segment : Pair(l, p) \in expected
              /\ \A p, r \in segment :
                   /\ Pair(l, p) = Pair(l, r) => p = r
                   /\ (l[p].name = l[r].name /\ p < r) => l[p].x < l[r].x

LogComplete(l) ==
  /\ l # <<>> /\ l[Len(l)].call = "output"
  /\ \A t \in Range(Types), g \in 1..Len(Groups) :
       \E q \in GraphPositions(l) : l[q].name = Groups[g].name /\ l[q].type = t
  /\ \A q \in GraphPositions(l) :
       {Pair(l, p) : p \in Segment(l, q)} = ExpectedPairs(l[q].name)

\* C8: whenever the sink is called, the calls so far are in order: no
\* new_result before a new_graph, at most one new_graph per element type and
\* block, each new_result after its block's new_graph and at most once per
\* series label and size, sizes ascending as declared within a series,
\* output last; and when main() returns every block of every element type
\* was declared, every declared pair was recorded, and output was called.
C8_SinkCallOrder ==
  [][log' # log =>
       /\ LogOrdered(log')
       /\ pc' = "done" => LogComplete(log')
       /\ log'[Len(log')].call = "output" => pc' = "done"]_vars

\* C8 witness: main() has returned after the calls for every block.
C8_Witness ==
  /\ pc = "done"
  /\ Cardinality(GraphPositions(log)) = Len(Types) * Len(Groups)
  /\ \E p \in 1..Len(log) : log[p].call = "new_result" /\ log[p].name = "vector_rem"
  /\ log[Len(log)].call = "output"

\* The policies of the running scenario, each with the size of the trial.
ExpectedApplied ==
  [k \in 1..Len(CurSeries.tests) |-> [policy |-> CurSeries.tests[k], size |-> CurSize]]

\* C9: a container is created only while no container exists and no timer
\* runs; the timer starts on a container no policy has touched; each policy
\* step runs under the timer and extends the declared order by one, with the
\* trial's size; the timer stops only after every policy ran exactly once,
\* and the elapsed time is added to the accumulator; the fifth trial, and
\* only the fifth, is followed by new_result, once per size.
C9_TrialProtocol ==
  [][/\ (~live /\ live') => (~timing /\ ~timing' /\ applied' = <<>>)
     /\ (v' # v) => (~timing /\ ~timing')
     /\ (~timing /\ timing') => (live /\ live' /\ applied = <<>> /\ container' = container)
     /\ (applied' # applied /\ applied' # <<>>) =>
          /\ timing /\ timing' /\ live
          /\ Len(applied') = Len(applied) + 1
          /\ applied' = SubSeq(ExpectedApplied, 1, Len(applied'))
     /\ (timing /\ ~timing' /\ ~faulted') =>
          /\ applied = ExpectedApplied
          /\ trialsDone' = trialsDone + 1
          /\ trialsDone' <= 5
          /\ duration' - duration = elapsed' - elapsed
          /\ elapsed' >= elapsed
          /\ ~live'
          /\ (trialsDone' = 5) <=> (pc' = "new_result")
     /\ (log' # log /\ log'[Len(log')].call = "new_result") =>
          (trialsDone = 5 /\ pc = "new_result" /\ Len(log') = Len(log) + 1)
     /\ (pc = "new_result") => (log' # log /\ log'[Len(log')].call = "new_result")
     /\ (trialsDone' = 0 /\ trialsDone # 0) =>
          /\ trialsDone = 5
          /\ \E p \in {Len(log) - 1, Len(log)} \cap (1..Len(log)) :
               /\ log[p].call = "new_result"
               /\ \A q \in (p + 1)..Len(log) : log[q].call = "new_graph"]_vars

\* C9 witness: the fifth trial of a scenario with two policies (ReserveSize,
\* then FillBack) has ended and its sample is about to be emitted.
C9_Witness ==
  /\ pc = "new_result" /\ trialsDone = 5
  /\ Len(applied) = 2
  /\ applied[1].policy = "ReserveSize" /\ applied[2].policy = "FillBack"
  /\ ~timing /\ ~live

\* The trials of one size are running or have just ended.
InTrials == pc \in {"make", "t0", "run", "new_result"}

\* C10 as claimed: the trials of one scenario and size all end with the
\* same key sequence.
C10_TrialsEndAlike ==
  InTrials => Cardinality(finals) <= 1

\* C10 amended: the trials of one scenario and size all end with the same
\* key sequence unless the scenario runs RandomSortedInsert, whose static
\* generator, like the index cache, lives on from trial to trial.
C10_TrialsEndAlikeWithoutGenerator ==
  (InTrials /\ ~("RandomSortedInsert" \in Range(CurSeries.tests))) =>
    Cardinality(finals) <= 1

\* C10 witness: five trials of a FilledRandom + Insert scenario have ended,
\* all with the same sequence of size + Passes keys.
C10_Witness ==
  /\ pc = "new_result" /\ trialsDone = 5
  /\ CurSeries.create = "FilledRandom" /\ CurSeries.tests = <<"Insert">>
  /\ Cardinality(finals) = 1
  /\ \A f \in finals : Len(f) = CurSize + Passes

====
